---- MODULE Spec2Model ----
(***************************************************************************)
(* The idempotency-key store of django-idempotency-key:                    *)
(* idempotency_key/storage.py (CachedHttpResponse, MemoryKeyStorage,       *)
(* CacheKeyStorage) and the duplicate-request protocol that runs on it.    *)
(*                                                                         *)
(* Time is time.time() counted in whole ticks.  A response is an opaque    *)
(* value; None is the reservation sentinel.  The Django cache service      *)
(* behind CacheKeyStorage is a map that keeps what it is given (its own    *)
(* eviction policy is outside this module).                                *)
(***************************************************************************)
EXTENDS Integers, FiniteSets, Sequences, TLC

\* ---------------------------------------------------------------- bounds
MaxTime == 3
TTL == 1
NumReq == 2
MaxExec == 2

\* ------------------------------------------------------------ value sets
None == "None"
Responses == {"R1", "R2"}
Payloads == {None} \cup Responses
CacheNames == {"default", "other"}
Keys == {"k1", "k2"}
Slots == {<<"default", "k1">>, <<"default", "k2">>, <<"other", "k1">>}
Backends == {"memory", "cache"}
Requests == 1 .. NumReq

VARIABLES
    backend,                      \* which IdempotencyKeyStorage class is configured
    now,                          \* time.time()
    idempotency_key_cache_data,   \* MemoryKeyStorage: cache_name -> (encoded_key -> record)
    caches,                       \* django.core.cache.caches: cache_name -> (encoded_key -> record)
    last,                         \* the storage call just made: whether it hit a record,
                                  \* what it returned, what it raised
    hist,                         \* per (cache_name, key): the latest store_data/delete_data
                                  \* call, its payload and its time
    conflict_code,                \* settings: CONFLICT_STATUS_CODE
    pc,                           \* per request: its place in the orchestration sequence
    answer,                       \* per request: the HTTP status it was answered with
    execs,                        \* how often the handler's side effect was performed
    rt                            \* a retrieve_data call in progress in another thread:
                                  \* the statement it is at, and what it returned or raised

storeVars == <<idempotency_key_cache_data, caches>>
reqVars == <<pc, answer, execs>>
vars == <<backend, now, idempotency_key_cache_data, caches, last, hist,
          conflict_code, pc, answer, execs, rt>>

\* ------------------------------------------------------- helper operators
EmptyTable == [x \in {} |-> None]

Put(f, x, v) == [y \in DOMAIN f \cup {x} |-> IF y = x THEN v ELSE f[y]]

Drop(f, x) == [y \in DOMAIN f \ {x} |-> f[y]]

\* CachedHttpResponse(value): the value and the time of construction.
CachedHttpResponse(value, t) == [response |-> value, mtime |-> t]

\* defaultdict(dict).__getitem__: a missing cache_name gets an empty table.
DefaultGet(data, cache_name) ==
    IF cache_name \in DOMAIN data THEN data ELSE Put(data, cache_name, EmptyTable)

\* ------------------------------------------------------ MemoryKeyStorage
\* Each operation yields the new table map, and for retrieve_data the
\* returned (found, response) pair; error names the exception raised, if any
\* (then data is the map as the exception left it).
\* Mutation: an existing record gets the new response but keeps its old mtime.
MemoryStoreData_KeepMtime(data, cache_name, encoded_key, response, t) ==
    LET d == DefaultGet(data, cache_name)
        at == IF encoded_key \in DOMAIN d[cache_name]
              THEN d[cache_name][encoded_key].mtime ELSE t
    IN  Put(d, cache_name, Put(d[cache_name], encoded_key, CachedHttpResponse(response, at)))

MemoryStoreData(data, cache_name, encoded_key, response, t) ==
    LET d == DefaultGet(data, cache_name)
    IN  Put(d, cache_name, Put(d[cache_name], encoded_key, CachedHttpResponse(response, t)))

\* Mutation: a reservation is reclaimed already at mtime + ttl = now.
MemoryRetrieveData_AtBoundary(data, cache_name, encoded_key, t) ==
    LET d == DefaultGet(data, cache_name)
        the_cache == d[cache_name]
    IN  IF encoded_key \notin DOMAIN the_cache
        THEN [data |-> d, found |-> FALSE, response |-> None, error |-> "none"]
        ELSE LET response == the_cache[encoded_key].response
                 mtime == the_cache[encoded_key].mtime
             IN  IF response = None /\ mtime + TTL <= t
                 THEN [data |-> Put(d, cache_name, Drop(the_cache, encoded_key)),
                       found |-> FALSE, response |-> None, error |-> "none"]
                 ELSE [data |-> d, found |-> TRUE, response |-> response,
                       error |-> "none"]

\* Mutation: a stale reservation is never reclaimed.
MemoryRetrieveData_NoReclaim(data, cache_name, encoded_key, t) ==
    LET d == DefaultGet(data, cache_name)
        the_cache == d[cache_name]
    IN  IF encoded_key \notin DOMAIN the_cache
        THEN [data |-> d, found |-> FALSE, response |-> None, error |-> "none"]
        ELSE [data |-> d, found |-> TRUE, response |-> the_cache[encoded_key].response,
              error |-> "none"]

\* Mutation: reading a record renews its mtime.
MemoryRetrieveData_Touch(data, cache_name, encoded_key, t) ==
    LET d == DefaultGet(data, cache_name)
        the_cache == d[cache_name]
    IN  IF encoded_key \notin DOMAIN the_cache
        THEN [data |-> d, found |-> FALSE, response |-> None, error |-> "none"]
        ELSE LET response == the_cache[encoded_key].response
                 mtime == the_cache[encoded_key].mtime
             IN  IF response = None /\ mtime + TTL < t
                 THEN [data |-> Put(d, cache_name, Drop(the_cache, encoded_key)),
                       found |-> FALSE, response |-> None, error |-> "none"]
                 ELSE [data |-> Put(d, cache_name, Put(the_cache, encoded_key,
                                        CachedHttpResponse(response, t))),
                       found |-> TRUE, response |-> response, error |-> "none"]

MemoryRetrieveData(data, cache_name, encoded_key, t) ==
    LET d == DefaultGet(data, cache_name)
        the_cache == d[cache_name]
    IN  IF encoded_key \notin DOMAIN the_cache
        THEN [data |-> d, found |-> FALSE, response |-> None, error |-> "none"]
        ELSE LET response == the_cache[encoded_key].response
                 mtime == the_cache[encoded_key].mtime
             IN  IF response = None /\ mtime + TTL < t
                 THEN [data |-> Put(d, cache_name, Drop(the_cache, encoded_key)),
                       found |-> FALSE, response |-> None, error |-> "none"]
                 ELSE [data |-> d, found |-> TRUE, response |-> response,
                       error |-> "none"]

\* Mutation: del the_cache[encoded_key] without the membership test.
MemoryDeleteData_Unguarded(data, cache_name, encoded_key) ==
    LET d == DefaultGet(data, cache_name)
        the_cache == d[cache_name]
    IN  IF encoded_key \in DOMAIN the_cache
        THEN [data |-> Put(d, cache_name, Drop(the_cache, encoded_key)), error |-> "none"]
        ELSE [data |-> d, error |-> "KeyError"]

MemoryDeleteData(data, cache_name, encoded_key) ==
    LET d == DefaultGet(data, cache_name)
        the_cache == d[cache_name]
    IN  IF the_cache # EmptyTable /\ encoded_key \in DOMAIN the_cache
        THEN [data |-> Put(d, cache_name, Drop(the_cache, encoded_key)), error |-> "none"]
        ELSE [data |-> d, error |-> "none"]

\* ------------------------------------------------------- CacheKeyStorage
\* Mutation: the record is set in every cache, not only the named one.
CacheStoreData_EveryCache(cs, cache_name, encoded_key, response, t) ==
    [c \in DOMAIN cs |-> Put(cs[c], encoded_key, CachedHttpResponse(response, t))]

CacheStoreData(cs, cache_name, encoded_key, response, t) ==
    [cs EXCEPT ![cache_name] = Put(@, encoded_key, CachedHttpResponse(response, t))]

\* Mutation: the ttl test applies to completed records as well.
CacheRetrieveData_ExpireAny(cs, cache_name, encoded_key, t) ==
    IF encoded_key \notin DOMAIN cs[cache_name]
    THEN [data |-> cs, found |-> FALSE, response |-> None, error |-> "none"]
    ELSE LET response == cs[cache_name][encoded_key].response
             mtime == cs[cache_name][encoded_key].mtime
         IN  IF mtime + TTL < t
             THEN [data |-> [cs EXCEPT ![cache_name] = Drop(@, encoded_key)],
                   found |-> FALSE, response |-> None, error |-> "none"]
             ELSE [data |-> cs, found |-> TRUE, response |-> response, error |-> "none"]

\* Mutation: a found record is reported without its response.
CacheRetrieveData_NoResponse(cs, cache_name, encoded_key, t) ==
    IF encoded_key \notin DOMAIN cs[cache_name]
    THEN [data |-> cs, found |-> FALSE, response |-> None, error |-> "none"]
    ELSE LET response == cs[cache_name][encoded_key].response
             mtime == cs[cache_name][encoded_key].mtime
         IN  IF response = None /\ mtime + TTL < t
             THEN [data |-> [cs EXCEPT ![cache_name] = Drop(@, encoded_key)],
                   found |-> FALSE, response |-> None, error |-> "none"]
             ELSE [data |-> cs, found |-> TRUE, response |-> None, error |-> "none"]

CacheRetrieveData(cs, cache_name, encoded_key, t) ==
    IF encoded_key \notin DOMAIN cs[cache_name]
    THEN [data |-> cs, found |-> FALSE, response |-> None, error |-> "none"]
    ELSE LET response == cs[cache_name][encoded_key].response
             mtime == cs[cache_name][encoded_key].mtime
         IN  IF response = None /\ mtime + TTL < t
             THEN [data |-> [cs EXCEPT ![cache_name] = Drop(@, encoded_key)],
                   found |-> FALSE, response |-> None, error |-> "none"]
             ELSE [data |-> cs, found |-> TRUE, response |-> response, error |-> "none"]

\* Mutation: the whole named cache is cleared.
CacheDeleteData_Clear(cs, cache_name, encoded_key) ==
    IF encoded_key \in DOMAIN cs[cache_name]
    THEN [data |-> [cs EXCEPT ![cache_name] = EmptyTable], error |-> "none"]
    ELSE [data |-> cs, error |-> "none"]

\* Mutation: the record is looked up but not deleted.
CacheDeleteData_Keep(cs, cache_name, encoded_key) ==
    [data |-> cs, error |-> "none"]

CacheDeleteData(cs, cache_name, encoded_key) ==
    IF encoded_key \in DOMAIN cs[cache_name]
    THEN [data |-> [cs EXCEPT ![cache_name] = Drop(@, encoded_key)], error |-> "none"]
    ELSE [data |-> cs, error |-> "none"]

\* ------------------------------------------- the configured storage object
\* The table map the configured backend works on.
Data == IF backend = "memory" THEN idempotency_key_cache_data ELSE caches

\* Whether table map d holds a record for (cache_name, encoded_key).
Holds(d, cache_name, encoded_key) ==
    /\ cache_name \in DOMAIN d
    /\ encoded_key \in DOMAIN d[cache_name]

HasRecord(cache_name, encoded_key) == Holds(Data, cache_name, encoded_key)

Record(cache_name, encoded_key) == Data[cache_name][encoded_key]

\* The (cache_name, key, record) triples of table map d.
Records(d) ==
    {<<s[1], s[2], d[s[1]][s[2]]>> : s \in {x \in Slots : Holds(d, x[1], x[2])}}

SetData(d) ==
    IF backend = "memory"
    THEN idempotency_key_cache_data' = d /\ UNCHANGED caches
    ELSE caches' = d /\ UNCHANGED idempotency_key_cache_data

NoCall == [op |-> "none", cache_name |-> "default", key |-> "k1", hit |-> FALSE,
           found |-> FALSE, response |-> None, error |-> "none"]

NeverStored == [op |-> "never", payload |-> None, at |-> 0]

\* No retrieve_data call is in progress.
NoRetrieve == [pc |-> "idle", found |-> FALSE, response |-> None, error |-> "none"]

\* storage.store_data(cache_name, encoded_key, response) at time t
StoreResult(d, cache_name, encoded_key, response, t) ==
    IF backend = "memory"
    THEN MemoryStoreData(d, cache_name, encoded_key, response, t)
    ELSE CacheStoreData(d, cache_name, encoded_key, response, t)

DoStore(cache_name, encoded_key, response) ==
    /\ SetData(StoreResult(Data, cache_name, encoded_key, response, now))
    /\ last' = [NoCall EXCEPT !.op = "store", !.cache_name = cache_name,
                              !.key = encoded_key,
                              !.hit = HasRecord(cache_name, encoded_key)]
    /\ hist' = [hist EXCEPT ![<<cache_name, encoded_key>>] =
                   [op |-> "store", payload |-> response, at |-> now]]

\* storage.retrieve_data(cache_name, encoded_key) at time t
RetrieveResult(d, cache_name, encoded_key, t) ==
    IF backend = "memory"
    THEN MemoryRetrieveData(d, cache_name, encoded_key, t)
    ELSE CacheRetrieveData(d, cache_name, encoded_key, t)

DoRetrieve(cache_name, encoded_key) ==
    LET r == RetrieveResult(Data, cache_name, encoded_key, now)
    IN  /\ SetData(r.data)
        /\ last' = [op |-> "retrieve", cache_name |-> cache_name, key |-> encoded_key,
                    hit |-> HasRecord(cache_name, encoded_key),
                    found |-> r.found, response |-> r.response, error |-> r.error]
        /\ UNCHANGED hist

\* storage.delete_data(cache_name, encoded_key)
DeleteResult(d, cache_name, encoded_key) ==
    IF backend = "memory"
    THEN MemoryDeleteData(d, cache_name, encoded_key)
    ELSE CacheDeleteData(d, cache_name, encoded_key)

DoDelete(cache_name, encoded_key) ==
    LET r == DeleteResult(Data, cache_name, encoded_key)
    IN  /\ SetData(r.data)
        /\ last' = [NoCall EXCEPT !.op = "delete", !.cache_name = cache_name,
                                  !.key = encoded_key, !.error = r.error,
                                  !.hit = HasRecord(cache_name, encoded_key)]
        /\ hist' = [hist EXCEPT ![<<cache_name, encoded_key>>] =
                       [op |-> "delete", payload |-> None, at |-> 0]]

\* ----------------------------------------------------------- HTTP statuses
HTTP_200_OK == 200
HTTP_201_CREATED == 201
HTTP_409_CONFLICT == 409
HTTP_423_LOCKED == 423
NoAnswer == 0
\* CONFLICT_STATUS_CODE: None (answer with the stored response's own status),
\* the default 409, or another configured code.
CodeNone == 0
ConflictCodes == {CodeNone, HTTP_409_CONFLICT, HTTP_200_OK}

\* The status of a response a handler produced (the views create a voucher).
StatusOf(response) == HTTP_201_CREATED

\* The cache name the orchestrator passes to the store.
StorageCacheName == "default"

\* The encoded key of the logical request the clients keep sending.
EncodedKey == "k1"

\* ------------------------------------------------------------------ Init
Start ==
    /\ backend \in Backends
    /\ now = 0
    /\ idempotency_key_cache_data = [x \in {} |-> EmptyTable]
    /\ caches = [c \in CacheNames |-> EmptyTable]
    /\ last = NoCall
    /\ hist = [s \in Slots |-> NeverStored]
    /\ pc = [r \in Requests |-> "idle"]
    /\ answer = [r \in Requests |-> NoAnswer]
    /\ execs = 0
    /\ rt = NoRetrieve

\* The storage interface is exercised under the default settings.
Init == Start /\ conflict_code = HTTP_409_CONFLICT

\* The orchestration runs under each CONFLICT_STATUS_CODE setting.
OrchInit == Start /\ conflict_code \in ConflictCodes

\* -------------------------------------------- the storage interface alone
Tick ==
    /\ now < MaxTime
    /\ now' = now + 1
    /\ last' = NoCall
    /\ UNCHANGED <<backend, rt, storeVars, hist, conflict_code, reqVars>>

store_data ==
    \E s \in Slots, response \in Payloads :
        /\ DoStore(s[1], s[2], response)
        /\ UNCHANGED <<backend, rt, now, conflict_code, reqVars>>

retrieve_data ==
    \E s \in Slots :
        /\ DoRetrieve(s[1], s[2])
        /\ UNCHANGED <<backend, rt, now, conflict_code, reqVars>>

delete_data ==
    \E s \in Slots :
        /\ DoDelete(s[1], s[2])
        /\ UNCHANGED <<backend, rt, now, conflict_code, reqVars>>

Next == Tick \/ store_data \/ retrieve_data \/ delete_data

Spec == Init /\ [][Next]_vars

\* ------------------------------------------ the orchestration sequence
\* Step 1: retrieve; a completed duplicate is answered with the conflict
\* status, an in-flight duplicate with 423, otherwise the request goes on.
Arrive(r) ==
    /\ pc[r] = "idle"
    /\ LET res == RetrieveResult(Data, StorageCacheName, EncodedKey, now)
        IN  /\ DoRetrieve(StorageCacheName, EncodedKey)
            /\ IF res.found /\ res.response # None
               THEN /\ pc' = [pc EXCEPT ![r] = "done"]
                    /\ answer' = [answer EXCEPT ![r] =
                           IF conflict_code = CodeNone
                           THEN StatusOf(res.response) ELSE conflict_code]
               ELSE IF res.found
               THEN /\ pc' = [pc EXCEPT ![r] = "done"]
                    /\ answer' = [answer EXCEPT ![r] = HTTP_423_LOCKED]
               ELSE /\ pc' = [pc EXCEPT ![r] = "reserve"]
                    /\ UNCHANGED answer
    /\ UNCHANGED <<backend, rt, now, conflict_code, execs>>

\* Step 2a: store the reservation sentinel.
Reserve(r) ==
    /\ pc[r] = "reserve"
    /\ DoStore(StorageCacheName, EncodedKey, None)
    /\ pc' = [pc EXCEPT ![r] = "handler"]
    /\ UNCHANGED <<backend, rt, now, conflict_code, answer, execs>>

\* Step 2b: the handler runs and performs its side effect.
HandlerOk(r) ==
    /\ pc[r] = "handler"
    /\ execs' = IF execs < MaxExec THEN execs + 1 ELSE execs
    /\ pc' = [pc EXCEPT ![r] = "complete"]
    /\ last' = NoCall
    /\ UNCHANGED <<backend, rt, now, storeVars, hist, conflict_code, answer>>

\* Step 2b': the handler fails before its side effect.
HandlerFail(r) ==
    /\ pc[r] = "handler"
    /\ pc' = [pc EXCEPT ![r] = "abort"]
    /\ last' = NoCall
    /\ UNCHANGED <<backend, rt, now, storeVars, hist, conflict_code, answer, execs>>

\* Step 2c: store the real response.
Complete(r) ==
    /\ pc[r] = "complete"
    /\ \E response \in Responses :
        /\ DoStore(StorageCacheName, EncodedKey, response)
        /\ answer' = [answer EXCEPT ![r] = StatusOf(response)]
    /\ pc' = [pc EXCEPT ![r] = "done"]
    /\ UNCHANGED <<backend, rt, now, conflict_code, execs>>

\* Step 2c': delete the reservation after a failure (the failure is the
\* handler's to report; no status is recorded for it here).
Abort(r) ==
    /\ pc[r] = "abort"
    /\ DoDelete(StorageCacheName, EncodedKey)
    /\ pc' = [pc EXCEPT ![r] = "done"]
    /\ UNCHANGED <<backend, rt, now, conflict_code, answer, execs>>

\* The request dies after reserving, writing nothing more.
Crash(r) ==
    /\ pc[r] \in {"handler", "complete", "abort"}
    /\ pc' = [pc EXCEPT ![r] = "crashed"]
    /\ last' = NoCall
    /\ UNCHANGED <<backend, rt, now, storeVars, hist, conflict_code, answer, execs>>

\* The client sends another request.
Retry(r) ==
    /\ pc[r] \in {"done", "crashed"}
    /\ pc' = [pc EXCEPT ![r] = "idle"]
    /\ answer' = [answer EXCEPT ![r] = NoAnswer]
    /\ last' = NoCall
    /\ UNCHANGED <<backend, rt, now, storeVars, hist, conflict_code, execs>>

OrchNext ==
    \/ Tick
    \/ \E r \in Requests :
          \/ Arrive(r)
          \/ Reserve(r)
          \/ HandlerOk(r)
          \/ HandlerFail(r)
          \/ Complete(r)
          \/ Abort(r)
          \/ Crash(r)
          \/ Retry(r)

OrchSpec == OrchInit /\ [][OrchNext]_vars

\* A second specification for the liveness of reclamation, under the default
\* settings: time advances until MaxTime, clients keep retrying, and a request
\* that may reserve does.
FairSpec ==
    /\ Init /\ [][OrchNext]_vars
    /\ WF_vars(Tick)
    /\ \A r \in Requests :
          WF_vars(Arrive(r)) /\ WF_vars(Reserve(r)) /\ WF_vars(Retry(r))

TypeOK ==
    /\ backend \in Backends
    /\ now \in 0 .. MaxTime
    /\ last.error \in {"none", "InvalidCacheBackendError"}
    /\ \A s \in Slots : HasRecord(s[1], s[2]) =>
          /\ Record(s[1], s[2]).response \in Payloads
          /\ Record(s[1], s[2]).mtime \in 0 .. now
    /\ pc \in [Requests -> {"idle", "reserve", "handler", "complete", "abort",
                             "done", "crashed"}]
    /\ execs \in 0 .. MaxExec

\* ======================================================================
\* Properties of the storage interface (specification Spec)
\* ======================================================================
\* What retrieve_data(s) returns when called in the current state.
RetrieveNow(s) == RetrieveResult(Data, s[1], s[2], now)

\* The latest write to s was store_data with this payload.
LastStored(s, payload) == hist[s].op = "store" /\ hist[s].payload = payload

\* The call just made was retrieve_data on s.
JustRetrieved(s) ==
    last.op = "retrieve" /\ last.cache_name = s[1] /\ last.key = s[2]

\* C2: after store(ns, k, sentinel) at t0 and no later write to (ns, k), a
\* retrieve at now with now - t0 <= TTL returns (true, sentinel) and keeps the
\* record (so also at exactly now - t0 = TTL); with now - t0 > TTL it returns
\* (false, none) and the record is gone, and so does every retrieve after it.
C2_ReservationTtl ==
    \A s \in Slots : LastStored(s, None) =>
        LET t0 == hist[s].at
            r == RetrieveNow(s)
        IN  /\ r.error = "none"
            /\ now - t0 <= TTL =>
                  /\ r.found /\ r.response = None
                  /\ HasRecord(s[1], s[2]) /\ Holds(r.data, s[1], s[2])
            /\ now - t0 > TTL =>
                  /\ ~r.found /\ r.response = None
                  /\ ~Holds(r.data, s[1], s[2])
            /\ JustRetrieved(s) =>
                  /\ last.error = "none"
                  /\ last.found = (now - t0 <= TTL)
                  /\ last.response = None
                  /\ HasRecord(s[1], s[2]) = (now - t0 <= TTL)

\* A retrieve has just reclaimed a reservation older than TTL.
C2_Witness ==
    \E s \in Slots :
        /\ LastStored(s, None) /\ now - hist[s].at > TTL
        /\ JustRetrieved(s) /\ ~last.found /\ ~HasRecord(s[1], s[2])

\* C3: after store(ns, k, R) with R a completed response and no later store or
\* delete of (ns, k), every retrieve returns (true, R) and leaves the record in
\* place, at every time, also past TTL.
C3_CompletedRoundTrip ==
    \A s \in Slots : \A R \in Responses : LastStored(s, R) =>
        LET r == RetrieveNow(s)
        IN  /\ r.error = "none" /\ r.found /\ r.response = R
            /\ HasRecord(s[1], s[2]) /\ Record(s[1], s[2]).response = R
            /\ Records(r.data) = Records(Data)
            /\ JustRetrieved(s) => last.found /\ last.response = R

\* A completed response was retrieved more than TTL after it was stored.
C3_Witness ==
    \E s \in Slots : \E R \in Responses :
        /\ LastStored(s, R) /\ now - hist[s].at > TTL
        /\ JustRetrieved(s) /\ last.found /\ last.response = R

\* C7: for a (namespace, key) on which store was never called, retrieve
\* returns (false, none), whatever was done to other keys and namespaces.
C7_NeverStoredAbsent ==
    \A s \in Slots : hist[s].op = "never" =>
        LET r == RetrieveNow(s)
        IN  /\ r.error = "none" /\ ~r.found /\ r.response = None
            /\ ~HasRecord(s[1], s[2])
            /\ Records(r.data) = Records(Data)
            /\ JustRetrieved(s) =>
                  ~last.found /\ last.response = None /\ last.error = "none"

\* A never-stored key was retrieved while other keys hold records.
C7_Witness ==
    \E s \in Slots :
        /\ hist[s].op = "never" /\ JustRetrieved(s) /\ ~last.found
        /\ \A o \in Slots \ {s} : HasRecord(o[1], o[2])

\* What delete_data(s) does when called in the current state.
DeleteNow(s) == DeleteResult(Data, s[1], s[2])

\* The call just made was op on s.
JustCalled(op, s) == last.op = op /\ last.cache_name = s[1] /\ last.key = s[2]

SlotView(s) ==
    <<HasRecord(s[1], s[2]),
      IF HasRecord(s[1], s[2]) THEN Record(s[1], s[2]) ELSE CachedHttpResponse(None, 0),
      RetrieveNow(s).found, RetrieveNow(s).response>>

\* C9: a store, retrieve (reclaiming or not) or delete on one (namespace, key)
\* leaves the record of every other (namespace, key), and what retrieve
\* returns for it, unchanged.
C9_Isolation ==
    [][\A s0 \in Slots :
          (last'.op \in {"store", "retrieve", "delete"}
             /\ last'.cache_name = s0[1] /\ last'.key = s0[2] /\ now' = now)
          => \A s \in Slots \ {s0} : SlotView(s)' = SlotView(s)]_vars

\* A retrieve has just reclaimed one key while every other key holds a record.
C9_Witness ==
    \E s0 \in Slots :
        /\ JustRetrieved(s0) /\ last.hit /\ ~last.found
        /\ \A s \in Slots \ {s0} : HasRecord(s[1], s[2])

\* C10: store overwrites unconditionally: right after store(ns, k, R2) the
\* record is exactly (R2, time of this call), whatever was there before, its
\* writtenAt is not earlier than the replaced record's, and a re-stored
\* reservation is found for TTL from this call on.
C10_StoreOverwrites ==
    [][\A s \in Slots :
          (last'.op = "store" /\ last'.cache_name = s[1] /\ last'.key = s[2])
          => /\ HasRecord(s[1], s[2])'
             /\ Record(s[1], s[2])' = [response |-> hist'[s].payload, mtime |-> now]
             /\ hist'[s].at = now
             /\ HasRecord(s[1], s[2]) =>
                   Record(s[1], s[2])'.mtime >= Record(s[1], s[2]).mtime
             /\ RetrieveNow(s)'.found /\ RetrieveNow(s)'.response = hist'[s].payload
             /\ \A t \in now .. MaxTime :
                   LET r == RetrieveResult(Data', s[1], s[2], t)
                   IN  hist'[s].payload = None => (r.found = (t <= now + TTL))]_vars

\* A reservation has just been stored over an older record.
C10_Witness ==
    \E s \in Slots :
        /\ JustCalled("store", s) /\ last.hit /\ LastStored(s, None)
        /\ now > 0 /\ Record(s[1], s[2]).mtime = now

\* ======================================================================
\* Properties of the orchestration sequence (specifications OrchSpec, FairSpec)
\* ======================================================================
TheSlot == <<StorageCacheName, EncodedKey>>

\* Request r takes step 1 in this step.
Arrives(r) == pc[r] = "idle" /\ pc'[r] # "idle"

\* C1: however the requests carrying one key interleave, the handler's side
\* effect is performed at most once.
C1_AtMostOnce == execs <= 1

Orphaned ==
    /\ HasRecord(StorageCacheName, EncodedKey)
    /\ Record(StorageCacheName, EncodedKey).response = None
    /\ Record(StorageCacheName, EncodedKey).mtime + TTL < MaxTime
    /\ \A r \in Requests : pc[r] \notin {"handler", "complete", "abort"}

\* C5: a request arriving more than TTL after a reservation that was never
\* completed or deleted retrieves found = false and goes on to reserve; and
\* while time advances and retries keep arriving, an orphaned reservation
\* leads to some retry reserving and reaching the handler.
C5_CrashRecovery ==
    /\ [][\A r \in Requests :
            (Arrives(r) /\ LastStored(TheSlot, None) /\ now - hist[TheSlot].at > TTL)
            => /\ pc'[r] = "reserve"
               /\ ~last'.found
               /\ ~HasRecord(StorageCacheName, EncodedKey)']_vars
    /\ (Orphaned ~> (\E r \in Requests : pc[r] = "handler"))

\* After a crash left a reservation behind, a retry has found the key absent
\* and is about to reserve.
C5_Witness ==
    /\ LastStored(TheSlot, None) /\ now - hist[TheSlot].at > TTL
    /\ JustRetrieved(TheSlot) /\ last.hit /\ ~last.found
    /\ \E r1, r2 \in Requests : pc[r1] = "crashed" /\ pc[r2] = "reserve"

\* C6: while a record exists, its payload never goes from Present back to the
\* reservation sentinel.
C6_NeverBackToReserved ==
    [][\A s \in Slots :
          (HasRecord(s[1], s[2]) /\ Record(s[1], s[2]).response # None
             /\ HasRecord(s[1], s[2])')
          => Record(s[1], s[2])'.response # None]_vars

\* C11: a request arriving when the latest write to its key is the delete of
\* an aborted request retrieves found = false and goes on to reserve, at
\* whatever time it arrives.
C11_RetryAfterAbort ==
    [][\A r \in Requests :
          (Arrives(r) /\ hist[TheSlot].op = "delete")
          => /\ pc'[r] = "reserve"
             /\ JustRetrieved(TheSlot)' /\ ~last'.found /\ last'.response = None
             /\ ~HasRecord(StorageCacheName, EncodedKey)]_vars

\* Within TTL of the start, a retry has found the key absent after an abort
\* deleted the reservation.
C11_Witness ==
    /\ hist[TheSlot].op = "delete" /\ now <= TTL
    /\ JustRetrieved(TheSlot) /\ ~last.found
    /\ \E r \in Requests : pc[r] = "reserve"

\* ======================================================================
\* Requests the orchestration answers without the store (specification
\* GateSpec)
\* ======================================================================
HTTP_400_BAD_REQUEST == 400

\* Mutation: the missing key is reported as a locked resource.
bad_request_Locked == [status |-> HTTP_423_LOCKED]

\* exceptions.bad_request: the response for MissingIdempotencyKeyError.
bad_request == [status |-> HTTP_400_BAD_REQUEST]

\* The statuses the exempt views answer with: 200 for the read-only GET, 201
\* for the exempt POSTs.
ExemptStatuses == {HTTP_200_OK, HTTP_201_CREATED}

\* A request to an endpoint that requires a key arrives without one.
MissingKey(r) ==
    /\ pc[r] = "idle"
    /\ pc' = [pc EXCEPT ![r] = "done"]
    /\ answer' = [answer EXCEPT ![r] = bad_request.status]
    /\ last' = NoCall
    /\ UNCHANGED <<backend, rt, now, storeVars, hist, conflict_code, execs>>

\* Mutation: the exempt request's response is recorded under the key.
Exempt_Records(r) ==
    /\ pc[r] = "idle"
    /\ \E status \in ExemptStatuses : answer' = [answer EXCEPT ![r] = status]
    /\ pc' = [pc EXCEPT ![r] = "done"]
    /\ DoStore(StorageCacheName, EncodedKey, "R1")
    /\ UNCHANGED <<backend, rt, now, conflict_code, execs>>

\* A request to an exempt endpoint (with or without a key): its handler runs
\* and answers; the store is not involved.
Exempt(r) ==
    /\ pc[r] = "idle"
    /\ \E status \in ExemptStatuses : answer' = [answer EXCEPT ![r] = status]
    /\ pc' = [pc EXCEPT ![r] = "done"]
    /\ last' = NoCall
    /\ UNCHANGED <<backend, rt, now, storeVars, hist, conflict_code, execs>>

GateNext ==
    \/ OrchNext
    \/ \E r \in Requests : MissingKey(r) \/ Exempt(r)

GateSpec == Init /\ [][GateNext]_vars

StorageNames == CacheNames \cup {"unconfigured"}

\* MemoryKeyStorage.validate_storage(name): pass.
MemoryValidateStorage(name) == "none"

\* Mutation: the cache is not looked up.
CacheValidateStorage_Pass(cs, name) == "none"

\* CacheKeyStorage.validate_storage(name): caches[name] raises
\* InvalidCacheBackendError for a name that is not configured.
CacheValidateStorage(cs, name) ==
    IF name \in DOMAIN cs THEN "none" ELSE "InvalidCacheBackendError"

ValidateResult(name) ==
    IF backend = "memory"
    THEN MemoryValidateStorage(name)
    ELSE CacheValidateStorage(caches, name)

validate_storage ==
    \E name \in StorageNames :
        /\ last' = [NoCall EXCEPT !.op = "validate", !.cache_name = name,
                                  !.error = ValidateResult(name)]
        /\ UNCHANGED <<backend, rt, now, storeVars, hist, conflict_code, reqVars>>

\* A process validates its storage while the store is written by others.
StartupNext == validate_storage \/ store_data \/ delete_data

StartupSpec == Init /\ [][StartupNext]_vars

\* C14: validate_storage(name) raises exactly when the backend is the shared
\* cache and name is not a configured cache; in every case it leaves both
\* table maps as they were.
C14_Validation ==
    [][last'.op = "validate" =>
          /\ (last'.error # "none")
                 = (backend = "cache" /\ last'.cache_name \notin CacheNames)
          /\ last'.error \in {"none", "InvalidCacheBackendError"}
          /\ storeVars' = storeVars]_vars

\* Validation of an unconfigured name has just failed on the shared cache
\* backend while the cache held records.
C14_Witness ==
    /\ last.op = "validate" /\ last.error = "InvalidCacheBackendError"
    /\ backend = "cache" /\ Records(caches) # {}

\* ======================================================================
\* retrieve_data statement by statement, next to the calls of other threads
\* (specification ConcSpec)
\* ======================================================================
\* MemoryKeyStorage.retrieve_data: the_cache = ...[cache_name] and the
\* membership test.
MemoryRetrieveCheck(data, cache_name, encoded_key) ==
    LET d == DefaultGet(data, cache_name)
    IN  [data |-> d, present |-> encoded_key \in DOMAIN d[cache_name]]

\* MemoryKeyStorage.retrieve_data: the_cache[encoded_key].response_and_mtime
\* and the ttl test; the subscript raises KeyError when the key is gone.
MemoryRetrieveRead(data, cache_name, encoded_key, t) ==
    IF encoded_key \notin DOMAIN data[cache_name]
    THEN [error |-> "KeyError", stale |-> FALSE, response |-> None]
    ELSE LET response == data[cache_name][encoded_key].response
             mtime == data[cache_name][encoded_key].mtime
         IN  [error |-> "none", stale |-> response = None /\ mtime + TTL < t,
              response |-> response]

\* MemoryKeyStorage.retrieve_data: del the_cache[encoded_key]; raises
\* KeyError when the key is gone.
MemoryRetrieveReclaim(data, cache_name, encoded_key) ==
    IF encoded_key \in DOMAIN data[cache_name]
    THEN [data |-> Put(data, cache_name, Drop(data[cache_name], encoded_key)),
          error |-> "none"]
    ELSE [data |-> data, error |-> "KeyError"]

\* CacheKeyStorage.retrieve_data: encoded_key not in caches[cache_name].
CacheRetrieveCheck(cs, cache_name, encoded_key) ==
    [data |-> cs, present |-> encoded_key \in DOMAIN cs[cache_name]]

\* CacheKeyStorage.retrieve_data: caches[cache_name].get(encoded_key)
\* .response_and_mtime and the ttl test; get returns None for a key that is
\* gone, and the attribute access on it raises AttributeError.
CacheRetrieveRead(cs, cache_name, encoded_key, t) ==
    IF encoded_key \notin DOMAIN cs[cache_name]
    THEN [error |-> "AttributeError", stale |-> FALSE, response |-> None]
    ELSE LET response == cs[cache_name][encoded_key].response
             mtime == cs[cache_name][encoded_key].mtime
         IN  [error |-> "none", stale |-> response = None /\ mtime + TTL < t,
              response |-> response]

\* CacheKeyStorage.retrieve_data: caches[cache_name].delete(encoded_key).
CacheRetrieveReclaim(cs, cache_name, encoded_key) ==
    [data |-> [cs EXCEPT ![cache_name] = Drop(@, encoded_key)], error |-> "none"]

\* A thread enters retrieve_data(StorageCacheName, EncodedKey).
RetrieveCheck ==
    /\ rt.pc \in {"idle", "returned"}
    /\ LET c == IF backend = "memory"
                THEN MemoryRetrieveCheck(Data, StorageCacheName, EncodedKey)
                ELSE CacheRetrieveCheck(Data, StorageCacheName, EncodedKey)
       IN  /\ SetData(c.data)
           /\ rt' = IF c.present
                    THEN [NoRetrieve EXCEPT !.pc = "checked"]
                    ELSE [NoRetrieve EXCEPT !.pc = "returned"]
    /\ last' = NoCall
    /\ UNCHANGED <<backend, now, hist, conflict_code, reqVars>>

\* The thread reads the record it saw and tests its age.
RetrieveRead ==
    /\ rt.pc = "checked"
    /\ LET g == IF backend = "memory"
                THEN MemoryRetrieveRead(Data, StorageCacheName, EncodedKey, now)
                ELSE CacheRetrieveRead(Data, StorageCacheName, EncodedKey, now)
       IN  rt' = IF g.error # "none"
                 THEN [NoRetrieve EXCEPT !.pc = "returned", !.error = g.error]
                 ELSE IF g.stale
                 THEN [NoRetrieve EXCEPT !.pc = "reclaim"]
                 ELSE [NoRetrieve EXCEPT !.pc = "returned", !.found = TRUE,
                                         !.response = g.response]
    /\ last' = NoCall
    /\ UNCHANGED <<backend, now, storeVars, hist, conflict_code, reqVars>>

\* The thread deletes the key it judged stale and returns (False, None).
RetrieveReclaim ==
    /\ rt.pc = "reclaim"
    /\ LET d == IF backend = "memory"
                THEN MemoryRetrieveReclaim(Data, StorageCacheName, EncodedKey)
                ELSE CacheRetrieveReclaim(Data, StorageCacheName, EncodedKey)
       IN  /\ SetData(d.data)
           /\ rt' = [NoRetrieve EXCEPT !.pc = "returned", !.error = d.error]
    /\ last' = NoCall
    /\ UNCHANGED <<backend, now, hist, conflict_code, reqVars>>

\* Another thread's store_data on the same key.
ConcStore ==
    /\ \E response \in Payloads : DoStore(StorageCacheName, EncodedKey, response)
    /\ UNCHANGED <<backend, rt, now, conflict_code, reqVars>>

\* Another thread's delete_data on the same key.
ConcDelete ==
    /\ DoDelete(StorageCacheName, EncodedKey)
    /\ UNCHANGED <<backend, rt, now, conflict_code, reqVars>>

ConcNext ==
    \/ Tick
    \/ RetrieveCheck \/ RetrieveRead \/ RetrieveReclaim
    \/ ConcStore \/ ConcDelete

ConcSpec == Init /\ [][ConcNext]_vars

\* C15: a retrieve that runs next to a delete of the same key returns a
\* (found, response) pair; it never ends in an exception.
C15_RetrieveNeverFails ==
    rt.pc = "returned" => rt.error = "none"

\* C16: the delete issued inside retrieve removes nothing but a reservation
\* that is at least TTL old: never a completed response, never a reservation
\* written less than TTL ago.
C16_ReclaimOnlyStale ==
    [][(rt.pc = "reclaim" /\ rt'.pc = "returned"
            /\ HasRecord(StorageCacheName, EncodedKey))
       => /\ Record(StorageCacheName, EncodedKey).response = None
          /\ now - Record(StorageCacheName, EncodedKey).mtime >= TTL]_vars

\* ======================================================================
\* The orchestration with steps 1 and 2a in one step and handlers that
\* finish within TTL (specification AtomicSpec)
\* ======================================================================
\* The places of a request that holds a reservation.
InFlight == {"handler", "complete", "abort"}

\* Steps 1 and 2a with no step of another request in between: retrieve,
\* and when nothing is found store the reservation at once.
ArriveReserve(r) ==
    LET res == RetrieveResult(Data, StorageCacheName, EncodedKey, now)
    IN  IF res.found
        THEN Arrive(r)
        ELSE /\ pc[r] = "idle"
             /\ SetData(StoreResult(res.data, StorageCacheName, EncodedKey, None, now))
             /\ last' = [NoCall EXCEPT !.op = "store"]
             /\ hist' = [hist EXCEPT ![<<StorageCacheName, EncodedKey>>] =
                            [op |-> "store", payload |-> None, at |-> now]]
             /\ pc' = [pc EXCEPT ![r] = "handler"]
             /\ UNCHANGED <<backend, rt, now, conflict_code, answer, execs>>

\* Time advances only as far as the reservation in flight is not older than
\* TTL when its request stores or deletes.
TickWithinTtl ==
    /\ \A r \in Requests : pc[r] \in InFlight =>
           (now + 1) - hist[<<StorageCacheName, EncodedKey>>].at <= TTL
    /\ Tick

AtomicNext ==
    \/ TickWithinTtl
    \/ \E r \in Requests :
          \/ ArriveReserve(r)
          \/ HandlerOk(r)
          \/ HandlerFail(r)
          \/ Complete(r)
          \/ Abort(r)
          \/ Retry(r)

AtomicSpec == OrchInit /\ [][AtomicNext]_vars

\* The status a duplicate of a completed request is answered with.
ConflictStatus ==
    IF conflict_code = CodeNone THEN HTTP_201_CREATED ELSE conflict_code

\* C17: with retrieve and reserve in one step and every handler finishing
\* within TTL, the handler's side effect is performed at most once, and a
\* request arriving while another holds the reservation or after the side
\* effect was performed is answered 423 (reservation in place) or with the
\* conflict status (response stored), and does not reach the handler.
C17_AtMostOnceWhenAtomic ==
    [][/\ execs' <= 1
       /\ \A r \in Requests :
             (Arrives(r) /\ (execs = 1 \/ \E q \in Requests : pc[q] \in InFlight))
             => /\ pc'[r] = "done"
                /\ answer'[r] = IF hist[<<StorageCacheName, EncodedKey>>].payload = None
                                 THEN HTTP_423_LOCKED ELSE ConflictStatus]_vars

\* The side effect was performed once and its response stored when time had
\* advanced by TTL or more; one request was answered 423, one 201.
C17_Witness ==
    /\ execs = 1 /\ now >= TTL
    /\ \E r \in Requests : pc[r] = "done" /\ answer[r] = HTTP_423_LOCKED
    /\ \E r \in Requests : pc[r] = "done" /\ answer[r] = HTTP_201_CREATED
    /\ conflict_code = HTTP_409_CONFLICT
    /\ hist[<<StorageCacheName, EncodedKey>>].payload \in Responses
    /\ hist[<<StorageCacheName, EncodedKey>>].at >= TTL

\* ======================================================================
\* Both backends given the same calls at the same times (specification
\* PairSpec)
\* ======================================================================
PairStore ==
    \E s \in Slots, response \in Payloads :
        /\ idempotency_key_cache_data' =
               MemoryStoreData(idempotency_key_cache_data, s[1], s[2], response, now)
        /\ caches' = CacheStoreData(caches, s[1], s[2], response, now)
        /\ last' = [NoCall EXCEPT !.op = "store", !.cache_name = s[1], !.key = s[2]]
        /\ UNCHANGED <<backend, rt, now, hist, conflict_code, reqVars>>

PairRetrieve ==
    \E s \in Slots :
        LET m == MemoryRetrieveData(idempotency_key_cache_data, s[1], s[2], now)
            c == CacheRetrieveData(caches, s[1], s[2], now)
        IN  /\ idempotency_key_cache_data' = m.data
            /\ caches' = c.data
            /\ last' = [op |-> "retrieve", cache_name |-> s[1], key |-> s[2],
                        hit |-> Holds(caches, s[1], s[2]),
                        found |-> c.found, response |-> c.response, error |-> c.error]
            /\ UNCHANGED <<backend, rt, now, hist, conflict_code, reqVars>>

PairDelete ==
    \E s \in Slots :
        /\ idempotency_key_cache_data' =
               MemoryDeleteData(idempotency_key_cache_data, s[1], s[2]).data
        /\ caches' = CacheDeleteData(caches, s[1], s[2]).data
        /\ last' = [NoCall EXCEPT !.op = "delete", !.cache_name = s[1], !.key = s[2]]
        /\ UNCHANGED <<backend, rt, now, hist, conflict_code, reqVars>>

PairNext == Tick \/ PairStore \/ PairRetrieve \/ PairDelete

PairSpec == Init /\ [][PairNext]_vars

\* C18: after the same calls at the same times both backends hold the same
\* (cache_name, key, response, mtime) records, and a retrieve_data of any key
\* made now returns the same (found, response) in both, raises in neither,
\* and leaves the same records behind in both.
C18_BackendsAgree ==
    /\ Records(idempotency_key_cache_data) = Records(caches)
    /\ \A s \in Slots :
          LET m == MemoryRetrieveData(idempotency_key_cache_data, s[1], s[2], now)
              c == CacheRetrieveData(caches, s[1], s[2], now)
          IN  /\ m.found = c.found /\ m.response = c.response
              /\ m.error = "none" /\ c.error = "none"
              /\ Records(m.data) = Records(c.data)

\* A retrieve has just reclaimed a stale reservation in both backends while
\* they hold a completed response that is older than TTL.
C18_Witness ==
    /\ last.op = "retrieve" /\ last.hit /\ ~last.found
    /\ ~Holds(caches, last.cache_name, last.key)
    /\ ~Holds(idempotency_key_cache_data, last.cache_name, last.key)
    /\ \E x \in Records(caches) : x[3].response # None /\ x[3].mtime + TTL < now

C20_OnlyStoreCreatesTable ==
    [][(backend = "memory" /\ last'.op \in {"retrieve", "delete"}) =>
          /\ last'.error = "none"
          /\ (last'.op = "retrieve"
                  /\ last'.cache_name \notin DOMAIN idempotency_key_cache_data)
              => (~last'.found /\ last'.response = None)
          /\ DOMAIN idempotency_key_cache_data' = DOMAIN idempotency_key_cache_data]_vars
====
